---- MODULE Spec2Model ----
(***************************************************************************)
(* Chunked parallel transcode scheduler of src/main.cpp: the worker loop   *)
(* (worker_thread), the per-chunk encoder (encode_chunk, encode_frames,    *)
(* encode), the progress monitor and join (main_encode_loop) and the       *)
(* concatenator (raw_concat_files).  run_decoder lives in decode.h, which  *)
(* is not part of the sources at hand; it is modelled from the written     *)
(* contract of the Decode Source.  The segment analyzer and repairer       *)
(* (segment_video, fix_broken_segments, called from main_unused) live in   *)
(* segment.h, which is not at hand either; they are modelled from their    *)
(* written contract and run under their own specification, SegSpec.        *)
(***************************************************************************)
EXTENDS Integers, Sequences, FiniteSets, TLC

\* ---------------------------------------------------------------- bounds
NUM_WORKERS == 2
CHUNK_FRAME_SIZE == 2
MaxFrames == 8
MaxLag == 2
MaxSegs == 3
MaxPkts == 2

\* ------------------------------------------------------------- constants
NoOwner == 0 - 1
None == 0 - 1
AVERROR == 0 - 1

Workers == 0 .. (NUM_WORKERS - 1)
Slots == 0 .. (NUM_WORKERS * CHUNK_FRAME_SIZE - 1)
FileIds == 0 .. MaxFrames
NoFile == << None >>

\* DecodeContext::open: a DecodeContext, or a DecoderCreationError of a kind
OpenErrors == {"AVError", "AllocationFailure", "NoVideoStream",
               "NoDecoderAvailable"}
OpenResults == {"ok"} \cup OpenErrors

VARIABLES
    \* inputs of one run, fixed by Init
    src_frames,      \* number of frames of the source
    dec_err_at,      \* source frame whose packet makes the decoder fail, or None
    alloc_fail_chunk, \* chunk id for which avcodec_alloc_context3 returns NULL, or None
    fopen_fail_chunk, \* chunk id for which fopen returns NULL, or None
    open_fail_chunk, \* chunk id for which avcodec_open2 fails, or None
    enc_fail_frame,  \* source frame for which avcodec_send_frame fails, or None
    flush_fail_chunk, \* chunk id for which the flush call fails, or None
    recv_fail_frame, \* source frame in whose encode call a receive call fails, or None
    recv_fail_chunk, \* chunk id in whose flush call a receive call fails, or None
    recv_fail_idx,   \* which avcodec_receive_packet call of that encode call fails (from 0)
    enc_lag,         \* frames the encoder holds back before it hands out packets
    \* shared state
    decoder,                 \* DecodeContext: demuxer position and eof mark
    framebuf,                \* DecodeContext::framebuf, slot -> source frame
    global_decoder_mutex,    \* owner of the mutex, or NoOwner
    global_chunk_id,
    num_frames_completed,
    worker_threads_finished,
    cv_notified,             \* a notify_one reached the waiting monitor
    files,                   \* "file <id>.mp4" -> frames written, or NoFile
    output,                  \* output.mp4: frames in the order appended
    \* worker locals
    pc, frames, chunk_idx, enc_i, ret,
    enc_queue,       \* frames sent to the worker's encoder, no packet out yet
    \* main thread locals
    main_pc, spawn_i, join_i,
    late_wakes,      \* returns of wait_for with every flag already set
    \* history
    assigned,        \* chunk ids handed out, in order: [w, id, first, n]
    written,         \* frames each worker wrote through its encoder
    decode_turns,    \* number of run_decoder calls
    dec_err_seen,    \* some decode turn returned a negative result
    stores,          \* stores made to each worker-finished flag
    concat_runs,     \* number of raw_concat_files calls
    \* segment analysis and repair
    segments,        \* the segment files: each a sequence of packets "K" / "P"
    seg_pc,
    seg_i,           \* next segment to analyze
    descriptors,     \* per segment: [decodable, discarded]
    broken,          \* indices of the segments found broken, in order
    rep_i,           \* next entry of broken to repair
    splices,         \* splice jobs done: [index, superseded, decodable, discarded]
    \* the end of main_unused (DecodeContext::open and the visit of its result)
    open_result,     \* what DecodeContext::open returned: "ok" or an error kind,
                     \* "unopened" while it has not been called
    errors_reported  \* "Failed to initialize decoder" lines printed

inputs == << src_frames, dec_err_at, open_fail_chunk, enc_fail_frame,
            flush_fail_chunk, enc_lag, alloc_fail_chunk,
            recv_fail_frame, recv_fail_chunk, recv_fail_idx,
            fopen_fail_chunk >>
shared == << decoder, framebuf, global_decoder_mutex, global_chunk_id,
             num_frames_completed, worker_threads_finished, cv_notified,
             files, output >>
wlocals == << pc, frames, chunk_idx, enc_i, ret, enc_queue >>
mhist == << late_wakes >>
mlocals == << main_pc, spawn_i, join_i, mhist >>
history == << assigned, written, decode_turns, dec_err_seen, stores,
             concat_runs >>
segvars == << segments, seg_pc, seg_i, descriptors, broken, rep_i, splices >>
openvars == << open_result, errors_reported >>
vars == << inputs, shared, wlocals, mlocals, history, segvars, openvars >>

\* ------------------------------------------------------------ helpers
Min(a, b) == IF a < b THEN a ELSE b

RECURSIVE SumTo(_, _)
SumTo(f, n) == IF n < 0 THEN 0 ELSE f[n] + SumTo(f, n - 1)

\* ---------------------------------------------------------- run_decoder
\* Frames the decoder can still deliver before end of stream.
DecAvail(d) == src_frames - d.pos

\* The call fails when the failing packet lies in the range it would read.
DecHitsError(d, max) ==
    /\ dec_err_at # None
    /\ dec_err_at >= d.pos
    /\ dec_err_at < d.pos + Min(max, DecAvail(d))

\* Result of decode_into(range, max): 0 at end of stream, negative on a
\* codec error, otherwise the number of frames produced.
RunDecoderRet(d, max) ==
    IF d.eof THEN 0
    ELSE IF DecHitsError(d, max) THEN AVERROR
    ELSE Min(max, DecAvail(d))

\* Decoder state after the call: the demuxer is sequential, every packet
\* read is consumed; a count below max is the final drain.
RunDecoderNext(d, max) ==
    IF d.eof THEN d
    ELSE IF DecHitsError(d, max) THEN [pos |-> dec_err_at + 1, eof |-> FALSE]
    ELSE [pos |-> d.pos + Min(max, DecAvail(d)),
          eof |-> Min(max, DecAvail(d)) < max]

\* Frame slots after the call: frames decoded before the call returned sit
\* in the caller's range, starting at its offset.
RunDecoderBuf(fb, d, offset, max) ==
    LET n == IF d.eof THEN 0
             ELSE IF DecHitsError(d, max) THEN dec_err_at - d.pos
             ELSE Min(max, DecAvail(d))
    IN [s \in Slots |->
          IF s >= offset /\ s < offset + n THEN d.pos + (s - offset)
          ELSE fb[s]]

\* ------------------------------------------------------------- the mutex
\* A lock() that does not wait for the owner to unlock.
MutexLockableNoWait(m) == TRUE

\* global_decoder_mutex.lock() returns only when no thread owns the mutex.
MutexLockable(m) == m = NoOwner

\* ------------------------------------------------------- the frame slots
\* Every worker given the start of the frame buffer.
SlotBaseShared(w) == 0

\* worker_id * CHUNK_FRAME_SIZE: first slot of the worker's range, for the
\* decode and for the encode.
SlotBase(w) == w * CHUNK_FRAME_SIZE

\* ------------------------------------------------------ raw_concat_files
\* dst << src.rdbuf() appends the file; when it inserts nothing (missing or
\* empty file) it sets failbit on dst and every later insertion is skipped.
RECURSIVE ConcatFrom(_, _, _, _, _)
ConcatFrom(fs, i, num_files, acc, failed) ==
    IF i >= num_files THEN acc
    ELSE IF failed \/ fs[i] = NoFile \/ fs[i] = << >>
         THEN ConcatFrom(fs, i + 1, num_files, acc, TRUE)
         ELSE ConcatFrom(fs, i + 1, num_files, acc \o fs[i], FALSE)

\* The loop counting down from the last file instead of up from the first.
RECURSIVE ConcatDown(_, _, _, _)
ConcatDown(fs, i, acc, failed) ==
    IF i < 0 THEN acc
    ELSE IF failed \/ fs[i] = NoFile \/ fs[i] = << >>
         THEN ConcatDown(fs, i - 1, acc, TRUE)
         ELSE ConcatDown(fs, i - 1, acc \o fs[i], FALSE)

raw_concat_files_down(fs, num_files) ==
    ConcatDown(fs, num_files - 1, << >>, FALSE)

\* for (i = 0; i < num_files; i++) dst << src.rdbuf();
raw_concat_files(fs, num_files) == ConcatFrom(fs, 0, num_files, << >>, FALSE)

\* ------------------------------------------------------------------ Init
\* The shared state and the locals before the first step of a run; main_pc
\* is "spawn" at the entry of main_encode_loop and "idle" while it is not
\* called.
PipeStart ==
    /\ decoder = [pos |-> 0, eof |-> FALSE]
    /\ framebuf = [s \in Slots |-> None]
    /\ global_decoder_mutex = NoOwner
    /\ global_chunk_id = 0
    /\ num_frames_completed = 0
    /\ worker_threads_finished = [w \in Workers |-> FALSE]
    /\ cv_notified = FALSE
    /\ files = [i \in FileIds |-> NoFile]
    /\ output = NoFile
    /\ pc = [w \in Workers |-> "idle"]
    /\ frames = [w \in Workers |-> 0]
    /\ chunk_idx = [w \in Workers |-> None]
    /\ enc_i = [w \in Workers |-> 0]
    /\ enc_queue = [w \in Workers |-> << >>]
    /\ ret = [w \in Workers |-> 0]
    /\ late_wakes = 0
    /\ spawn_i = 0
    /\ join_i = 0
    /\ assigned = << >>
    /\ written = [w \in Workers |-> 0]
    /\ decode_turns = 0
    /\ dec_err_seen = FALSE
    /\ stores = [w \in Workers |-> 0]
    /\ concat_runs = 0

\* No segment pass is running.
SegIdle ==
    /\ segments = << >>
    /\ seg_pc = "idle"
    /\ seg_i = 0
    /\ descriptors = << >>
    /\ broken = << >>
    /\ rep_i = 0
    /\ splices = << >>

\* The chunk ids an encoder fault is placed in: the first two chunks of a
\* source of F frames.
FaultChunks(F) == {k \in 0 .. 1 : k * CHUNK_FRAME_SIZE < F}

\* One assignment of the fault inputs.
Faults(dec, alloc, fop, opn, send, flush, rframe, rchunk, ridx) ==
    /\ dec_err_at = dec
    /\ alloc_fail_chunk = alloc
    /\ fopen_fail_chunk = fop
    /\ open_fail_chunk = opn
    /\ enc_fail_frame = send
    /\ flush_fail_chunk = flush
    /\ recv_fail_frame = rframe
    /\ recv_fail_chunk = rchunk
    /\ recv_fail_idx = ridx

NoFaults == Faults(None, None, None, None, None, None, None, None, 0)

\* The inputs of a run of main_encode_loop: a source of up to MaxFrames
\* frames, an encoder lag, and at most one fault.  Runs without a fault are
\* made for every length and lag.  A decode error or a fault of the encoder
\* setup (avcodec_alloc_context3, avcodec_open2, fopen) is placed in a source
\* of up to CHUNK_FRAME_SIZE + 2 frames, a fault of a single encode call
\* (avcodec_send_frame or avcodec_receive_packet, for a frame or in the
\* flush) in one of up to CHUNK_FRAME_SIZE + 1 frames.  The faults of the
\* decoder, of avcodec_alloc_context3, of avcodec_open2 and of
\* avcodec_send_frame for a frame are run with an encoder that hands out each
\* packet at once, the faults of the flush with one that holds packets back.
\* A failing receive call is one that had a packet to hand out, in the first
\* chunk: the first receive call of a frame's encode call, or a later
\* receive call of the flush (a flush whose first receive call fails writes
\* what a flush whose avcodec_send_frame fails writes: nothing).
Inputs ==
    /\ src_frames \in 0 .. MaxFrames
    /\ enc_lag \in 0 .. MaxLag
    /\ \/ NoFaults
       \/ /\ enc_lag = 0
          /\ src_frames <= CHUNK_FRAME_SIZE + 2
          /\ \/ \E f \in 0 .. (src_frames - 1) :
                   Faults(f, None, None, None, None, None, None, None, 0)
             \/ \E k \in FaultChunks(src_frames) :
                   \/ Faults(None, k, None, None, None, None, None, None, 0)
                   \/ Faults(None, None, None, k, None, None, None, None, 0)
       \/ /\ src_frames <= CHUNK_FRAME_SIZE + 1
          /\ \E k \in FaultChunks(src_frames) :
                Faults(None, None, k, None, None, None, None, None, 0)
       \/ /\ enc_lag = 0
          /\ src_frames <= CHUNK_FRAME_SIZE + 1
          /\ \E f \in 0 .. (src_frames - 1) :
                Faults(None, None, None, None, f, None, None, None, 0)
       \/ /\ enc_lag > 0
          /\ src_frames <= CHUNK_FRAME_SIZE + 1
          /\ \E k \in FaultChunks(src_frames) :
                Faults(None, None, None, None, None, k, None, None, 0)
       \/ /\ enc_lag <= 1
          /\ src_frames <= CHUNK_FRAME_SIZE + 1
          /\ \E f \in enc_lag .. (Min(src_frames, CHUNK_FRAME_SIZE) - 1) :
                Faults(None, None, None, None, None, None, f, None, 0)
       \/ /\ enc_lag > 1
          /\ src_frames <= CHUNK_FRAME_SIZE + 1
          /\ \E i \in 1 .. (Min(Min(enc_lag, src_frames),
                                CHUNK_FRAME_SIZE) - 1) :
                Faults(None, None, None, None, None, None, None, 0, i)

\* main_encode_loop is entered with the DecodeContext that open returned.
Init ==
    /\ Inputs
    /\ PipeStart
    /\ main_pc = "spawn"
    /\ SegIdle
    /\ open_result = "ok"
    /\ errors_reported = 0

\* ------------------------------------------------------ worker_thread
\* global_decoder_mutex.lock()
w_lock(w) ==
    /\ pc[w] = "lock"
    /\ MutexLockable(global_decoder_mutex)
    /\ global_decoder_mutex' = w
    /\ pc' = [pc EXCEPT ![w] = "decode"]
    /\ UNCHANGED << segvars, openvars, inputs, decoder, framebuf, global_chunk_id,
                    num_frames_completed, worker_threads_finished,
                    cv_notified, files, output, frames, chunk_idx, enc_i, enc_queue,
                    ret, mlocals, history >>

\* int frames = run_decoder(decoder, worker_id * CHUNK_FRAME_SIZE, ...);
\* if (frames <= 0) ...
w_decode(w) ==
    /\ pc[w] = "decode"
    /\ frames' = [frames EXCEPT ![w] = RunDecoderRet(decoder, CHUNK_FRAME_SIZE)]
    /\ decoder' = RunDecoderNext(decoder, CHUNK_FRAME_SIZE)
    /\ framebuf' = RunDecoderBuf(framebuf, decoder, SlotBase(w),
                                 CHUNK_FRAME_SIZE)
    /\ pc' = [pc EXCEPT ![w] = IF frames'[w] <= 0 THEN "exit_store"
                                                  ELSE "read_id"]
    /\ decode_turns' = decode_turns + 1
    /\ dec_err_seen' = (dec_err_seen \/ frames'[w] < 0)
    /\ UNCHANGED << segvars, openvars, inputs, global_decoder_mutex, global_chunk_id,
                    num_frames_completed, worker_threads_finished,
                    cv_notified, files, output, chunk_idx, enc_i, enc_queue, ret,
                    mlocals, assigned, written, stores, concat_runs >>

\* worker_threads_finished[worker_id].store(true)
w_exit_store(w) ==
    /\ pc[w] = "exit_store"
    /\ worker_threads_finished' = [worker_threads_finished EXCEPT ![w] = TRUE]
    /\ stores' = [stores EXCEPT ![w] = @ + 1]
    /\ pc' = [pc EXCEPT ![w] = "exit_notify"]
    /\ UNCHANGED << segvars, openvars, inputs, decoder, framebuf, global_decoder_mutex,
                    global_chunk_id, num_frames_completed, cv_notified,
                    files, output, frames, chunk_idx, enc_i, enc_queue, ret, mlocals,
                    assigned, written, decode_turns, dec_err_seen,
                    concat_runs >>

\* cv.notify_one(): wakes the monitor only if it is waiting
w_exit_notify(w) ==
    /\ pc[w] = "exit_notify"
    /\ cv_notified' = (cv_notified \/ main_pc = "waiting")
    /\ pc' = [pc EXCEPT ![w] = "exit_unlock"]
    /\ UNCHANGED << segvars, openvars, inputs, decoder, framebuf, global_decoder_mutex,
                    global_chunk_id, num_frames_completed,
                    worker_threads_finished, files, output, frames,
                    chunk_idx, enc_i, enc_queue, ret, mlocals, history >>

\* The exit on a decode result <= 0 returning with the mutex still locked.
w_exit_return_locked(w) ==
    /\ pc[w] = "exit_unlock"
    /\ ret' = [ret EXCEPT ![w] = frames[w]]
    /\ pc' = [pc EXCEPT ![w] = "done"]
    /\ UNCHANGED << segvars, openvars, inputs, shared, frames, chunk_idx, enc_i, enc_queue, mlocals,
                    history >>

\* global_decoder_mutex.unlock(); return frames;
w_exit_unlock(w) ==
    /\ pc[w] = "exit_unlock"
    /\ global_decoder_mutex' = NoOwner
    /\ ret' = [ret EXCEPT ![w] = frames[w]]
    /\ pc' = [pc EXCEPT ![w] = "done"]
    /\ UNCHANGED << segvars, openvars, inputs, decoder, framebuf, global_chunk_id,
                    num_frames_completed, worker_threads_finished,
                    cv_notified, files, output, frames, chunk_idx, enc_i, enc_queue,
                    mlocals, history >>

\* auto chunk_idx = global_chunk_id;
w_read_id(w) ==
    /\ pc[w] = "read_id"
    /\ chunk_idx' = [chunk_idx EXCEPT ![w] = global_chunk_id]
    /\ assigned' = Append(assigned,
                          [w |-> w, id |-> global_chunk_id,
                           first |-> framebuf[SlotBase(w)],
                           n |-> frames[w]])
    /\ pc' = [pc EXCEPT ![w] = "inc_id"]
    /\ UNCHANGED << segvars, openvars, inputs, shared, frames, enc_i, enc_queue, ret, mlocals, written,
                    decode_turns, dec_err_seen, stores, concat_runs >>

\* global_chunk_id++;
w_inc_id(w) ==
    /\ pc[w] = "inc_id"
    /\ global_chunk_id' = global_chunk_id + 1
    /\ pc' = [pc EXCEPT ![w] = "unlock"]
    /\ UNCHANGED << segvars, openvars, inputs, decoder, framebuf, global_decoder_mutex,
                    num_frames_completed, worker_threads_finished,
                    cv_notified, files, output, frames, chunk_idx, enc_i, enc_queue,
                    ret, mlocals, history >>

\* The hand-over to the encoder without the unlock.
w_unlock_kept(w) ==
    /\ pc[w] = "unlock"
    /\ pc' = [pc EXCEPT ![w] = "enc_open"]
    /\ UNCHANGED << segvars, openvars, inputs, shared, frames, chunk_idx, enc_i, enc_queue, ret, mlocals,
                    history >>

\* global_decoder_mutex.unlock();
w_unlock(w) ==
    /\ pc[w] = "unlock"
    /\ global_decoder_mutex' = NoOwner
    /\ pc' = [pc EXCEPT ![w] = "enc_open"]
    /\ UNCHANGED << segvars, openvars, inputs, decoder, framebuf, global_chunk_id,
                    num_frames_completed, worker_threads_finished,
                    cv_notified, files, output, frames, chunk_idx, enc_i, enc_queue,
                    ret, mlocals, history >>

\* ------------------------------------------------- encode_frames, encode
\* avcodec_send_frame(enc_ctx, frame): fails for the frame enc_fail_frame
EncodeOk(f) == f # enc_fail_frame

\* avcodec_send_frame(enc_ctx, nullptr) of the flush call: fails for the chunk
\* flush_fail_chunk
FlushOk(chunk) == chunk # flush_fail_chunk

\* The packets avcodec_receive_packet hands out before EAGAIN once the frames
\* of queue are in the encoder: all but the last enc_lag of them.
PacketsReady(queue) == IF Len(queue) > enc_lag THEN Len(queue) - enc_lag ELSE 0

\* The receive call of the encode call for frame f that fails with an error
\* other than EAGAIN / EOF (counted from 0), or None
RecvFailFrame(f) == IF f = recv_fail_frame THEN recv_fail_idx ELSE None

\* The same for the flush call of a chunk.
RecvFailFlush(chunk) == IF chunk = recv_fail_chunk THEN recv_fail_idx ELSE None

\* The packets written by the receive loop when n packets are ready: each
\* successful avcodec_receive_packet is followed by the fwrite, the call that
\* fails returns with the remaining packets still in the encoder.
PacketsWritten(n, failidx) ==
    IF failidx # None /\ failidx < n THEN failidx ELSE n

\* encode() with a frame: a failing avcodec_send_frame returns before anything
\* is written; otherwise every packet received until EAGAIN, or until a
\* receive call fails, is written to the chunk file and the rest stays in the
\* encoder.
Encode(file, queue, f) ==
    IF EncodeOk(f)
    THEN LET q == Append(queue, f)
             n == PacketsWritten(PacketsReady(q), RecvFailFrame(f))
         IN  [file |-> file \o SubSeq(q, 1, n),
              queue |-> SubSeq(q, n + 1, Len(q))]
    ELSE [file |-> file, queue |-> queue]

\* encode() with frame = nullptr: the packets still held by the encoder are
\* written until EOF or until a receive call fails, or nothing is when
\* avcodec_send_frame fails.
EncodeFlush(file, queue, chunk) ==
    IF FlushOk(chunk)
    THEN LET n == PacketsWritten(Len(queue), RecvFailFlush(chunk))
         IN  [file |-> file \o SubSeq(queue, 1, n),
              queue |-> SubSeq(queue, n + 1, Len(queue))]
    ELSE [file |-> file, queue |-> queue]

\* The frame counter after one iteration of the loop of encode_frames: the
\* result of encode() is not looked at.
CountFrame(n, f) == n + 1

\* fopen(file_name, "wb") returned NULL for the chunk of worker w; the result
\* is not tested, so encode() and fclose() are handed the null stream.
FileNull(w) == chunk_idx[w] = fopen_fail_chunk

\* What the encoder holds when the fwrite of the first packet of an encode()
\* call faults on the null stream: avcodec_receive_packet has handed that
\* packet out, the ones behind it have not been asked for.
AtFirstWrite(queue) == Tail(queue)

\* encode_chunk -> encode_frames up to fopen; "if (ret != 0)" of worker_thread.
\* When avcodec_alloc_context3 returns NULL the store to avcc->thread_count
\* comes before the test of avcc: the store goes to the unmapped page at
\* address 0, SIGSEGV is raised in this thread and segvHandler runs in it
\* while the other threads go on.
w_enc_open(w) ==
    /\ pc[w] = "enc_open"
    /\ IF alloc_fail_chunk = chunk_idx[w]
       THEN /\ pc' = [pc EXCEPT ![w] = "segv"]
            /\ UNCHANGED << files, enc_i, enc_queue, ret >>
       ELSE IF open_fail_chunk = chunk_idx[w]
       THEN /\ ret' = [ret EXCEPT ![w] = AVERROR]
            /\ pc' = [pc EXCEPT ![w] = "fail_store"]
            /\ UNCHANGED << files, enc_i, enc_queue >>
       ELSE /\ files' = IF FileNull(w)
                        THEN files
                        ELSE [files EXCEPT ![chunk_idx[w]] = << >>]
            /\ enc_i' = [enc_i EXCEPT ![w] = 0]
            /\ enc_queue' = [enc_queue EXCEPT ![w] = << >>]
            /\ pc' = [pc EXCEPT ![w] = "enc_frame"]
            /\ UNCHANGED ret
    /\ UNCHANGED << segvars, openvars, inputs, decoder, framebuf, global_decoder_mutex,
                    global_chunk_id, num_frames_completed,
                    worker_threads_finished, cv_notified, output, frames,
                    chunk_idx, mlocals, history >>

\* one iteration of "for (i < frame_count)": encode(...); num_frames_completed++.
\* With a null stream the first fwrite of a packet raises SIGSEGV inside
\* encode(), after the frame was sent and that packet received; an encode()
\* call that has no packet to write returns as usual.
w_enc_frame(w) ==
    /\ pc[w] = "enc_frame"
    /\ enc_i[w] < frames[w]
    /\ LET f == framebuf[SlotBase(w) + enc_i[w]]
           old == IF FileNull(w) THEN << >> ELSE files[chunk_idx[w]]
           r == Encode(old, enc_queue[w], f)
       IN
         IF FileNull(w) /\ r.file # << >>
         THEN /\ pc' = [pc EXCEPT ![w] = "segv"]
              /\ enc_queue' = [enc_queue EXCEPT ![w] =
                                  AtFirstWrite(Append(enc_queue[w], f))]
              /\ UNCHANGED << files, written, num_frames_completed, enc_i >>
         ELSE /\ files' = IF FileNull(w)
                          THEN files
                          ELSE [files EXCEPT ![chunk_idx[w]] = r.file]
              /\ enc_queue' = [enc_queue EXCEPT ![w] = r.queue]
              /\ written' = [written EXCEPT ![w] = @ + Len(r.file) - Len(old)]
              /\ num_frames_completed' = CountFrame(num_frames_completed, f)
              /\ enc_i' = [enc_i EXCEPT ![w] = @ + 1]
              /\ UNCHANGED pc
    /\ UNCHANGED << segvars, openvars, inputs, decoder, framebuf, global_decoder_mutex,
                    global_chunk_id, worker_threads_finished, cv_notified,
                    output, frames, chunk_idx, ret, mlocals, assigned,
                    decode_turns, dec_err_seen, stores, concat_runs >>

\* The end of a chunk with exhaustion taken over from the other workers: a
\* worker that sees some finished flag set leaves without a turn of its own.
w_enc_close_broadcast(w) ==
    /\ pc[w] = "enc_frame"
    /\ enc_i[w] >= frames[w]
    /\ IF FileNull(w)
       THEN /\ pc' = [pc EXCEPT ![w] = "segv"]
            /\ enc_queue' = [enc_queue EXCEPT ![w] =
                  IF EncodeFlush(<< >>, enc_queue[w], chunk_idx[w]).file
                        # << >>
                  THEN AtFirstWrite(enc_queue[w])
                  ELSE enc_queue[w]]
            /\ UNCHANGED << files, written, ret >>
       ELSE /\ LET r == EncodeFlush(files[chunk_idx[w]], enc_queue[w],
                                    chunk_idx[w])
               IN /\ files' = [files EXCEPT ![chunk_idx[w]] = r.file]
                  /\ written' = [written EXCEPT ![w] =
                                    @ + Len(r.file) - Len(files[chunk_idx[w]])]
            /\ enc_queue' = [enc_queue EXCEPT ![w] = << >>]
            /\ ret' = [ret EXCEPT ![w] = 0]
            /\ pc' = [pc EXCEPT ![w] =
                         IF \E v \in Workers : worker_threads_finished[v]
                         THEN "fail_store" ELSE "lock"]
    /\ UNCHANGED << segvars, openvars, inputs, decoder, framebuf, global_decoder_mutex,
                    global_chunk_id, num_frames_completed,
                    worker_threads_finished, cv_notified, output, frames,
                    chunk_idx, enc_i, mlocals, assigned, decode_turns,
                    dec_err_seen, stores, concat_runs >>

\* encode(avcc, nullptr, pkt, file), its result not looked at; fclose;
\* avcodec_free_context; return 0; worker_thread loops.  With a null stream
\* the fwrite of the first held packet raises SIGSEGV, or else (nothing
\* held, or the flush failing before a packet is handed out) fclose(NULL).
w_enc_close(w) ==
    /\ pc[w] = "enc_frame"
    /\ enc_i[w] >= frames[w]
    /\ IF FileNull(w)
       THEN /\ pc' = [pc EXCEPT ![w] = "segv"]
            /\ enc_queue' = [enc_queue EXCEPT ![w] =
                  IF EncodeFlush(<< >>, enc_queue[w], chunk_idx[w]).file
                        # << >>
                  THEN AtFirstWrite(enc_queue[w])
                  ELSE enc_queue[w]]
            /\ UNCHANGED << files, written, ret >>
       ELSE /\ LET r == EncodeFlush(files[chunk_idx[w]], enc_queue[w],
                                    chunk_idx[w])
               IN /\ files' = [files EXCEPT ![chunk_idx[w]] = r.file]
                  /\ written' = [written EXCEPT ![w] =
                                    @ + Len(r.file) - Len(files[chunk_idx[w]])]
            /\ enc_queue' = [enc_queue EXCEPT ![w] = << >>]
            /\ ret' = [ret EXCEPT ![w] = 0]
            /\ pc' = [pc EXCEPT ![w] = "lock"]
    /\ UNCHANGED << segvars, openvars, inputs, decoder, framebuf, global_decoder_mutex,
                    global_chunk_id, num_frames_completed,
                    worker_threads_finished, cv_notified, output, frames,
                    chunk_idx, enc_i, mlocals, assigned, decode_turns,
                    dec_err_seen, stores, concat_runs >>

\* segvHandler, run by the thread that raised SIGSEGV: one line on stderr and
\* exit(EXIT_FAILURE), which ends the process and every thread in it.
w_segv(w) ==
    /\ pc[w] = "segv"
    /\ main_pc' = "exited"
    /\ UNCHANGED << segvars, openvars, inputs, shared, wlocals, spawn_i, join_i, mhist,
                    history >>

\* The encode-failure exit without the store to the flag.
w_fail_store_skipped(w) ==
    /\ pc[w] = "fail_store"
    /\ pc' = [pc EXCEPT ![w] = "fail_notify"]
    /\ UNCHANGED << segvars, openvars, inputs, shared, frames, chunk_idx, enc_i, enc_queue, ret, mlocals,
                    history >>

\* encode failure: worker_threads_finished[worker_id].store(true)
w_fail_store(w) ==
    /\ pc[w] = "fail_store"
    /\ worker_threads_finished' = [worker_threads_finished EXCEPT ![w] = TRUE]
    /\ stores' = [stores EXCEPT ![w] = @ + 1]
    /\ pc' = [pc EXCEPT ![w] = "fail_notify"]
    /\ UNCHANGED << segvars, openvars, inputs, decoder, framebuf, global_decoder_mutex,
                    global_chunk_id, num_frames_completed, cv_notified,
                    files, output, frames, chunk_idx, enc_i, enc_queue, ret, mlocals,
                    assigned, written, decode_turns, dec_err_seen,
                    concat_runs >>

\* cv.notify_one(); return ret;
w_fail_notify(w) ==
    /\ pc[w] = "fail_notify"
    /\ cv_notified' = (cv_notified \/ main_pc = "waiting")
    /\ pc' = [pc EXCEPT ![w] = "done"]
    /\ UNCHANGED << segvars, openvars, inputs, decoder, framebuf, global_decoder_mutex,
                    global_chunk_id, num_frames_completed,
                    worker_threads_finished, files, output, frames,
                    chunk_idx, enc_i, enc_queue, ret, mlocals, history >>

\* ---------------------------------------------------- main_encode_loop
\* The caller going on to main_encode_loop whatever open returned.
m_open_unchecked ==
    /\ main_pc = "open"
    /\ main_pc' = "spawn"
    /\ UNCHANGED << segvars, openvars, inputs, shared, wlocals, spawn_i, join_i,
                    mhist, history >>

\* auto vdec = DecodeContext::open(url) and std::visit on vdec:
\* main_encode_loop for a DecodeContext, one line on stderr for a
\* DecoderCreationError
m_open ==
    /\ main_pc = "open"
    /\ IF open_result = "ok"
       THEN /\ main_pc' = "spawn"
            /\ UNCHANGED errors_reported
       ELSE /\ main_pc' = "exit"
            /\ errors_reported' = errors_reported + 1
    /\ UNCHANGED << segvars, open_result, inputs, shared, wlocals, spawn_i,
                    join_i, mhist, history >>

\* thread_vector.emplace_back(&worker_thread, i, ...)
m_spawn ==
    /\ main_pc = "spawn"
    /\ pc' = [pc EXCEPT ![spawn_i] = "lock"]
    /\ spawn_i' = spawn_i + 1
    /\ main_pc' = IF spawn_i + 1 >= NUM_WORKERS THEN "loop" ELSE "spawn"
    /\ UNCHANGED << segvars, openvars, inputs, shared, frames, chunk_idx, enc_i, enc_queue, ret, join_i,
                    mhist, history >>

\* The flag loop stopping at the first flag that is set.
AnyFinished(flags) == \E w \in Workers : flags[w]

\* are_threads_finished
AllFinished(flags) == \A w \in Workers : flags[w]

\* top of "while (true)": cv_m is locked and cv.wait_for is entered; from
\* here on a notify_one reaches the monitor
m_wait ==
    /\ main_pc = "loop"
    /\ main_pc' = "waiting"
    /\ UNCHANGED << segvars, openvars, inputs, shared, wlocals, spawn_i, join_i, mhist, history >>

\* A wait without timeout: it returns only when a notify_one reached it.
m_wake_on_signal ==
    /\ main_pc = "waiting"
    /\ cv_notified
    /\ cv_notified' = FALSE
    /\ late_wakes' = IF AllFinished(worker_threads_finished)
                     THEN late_wakes + 1 ELSE late_wakes
    /\ main_pc' = "check"
    /\ UNCHANGED << segvars, openvars, inputs, decoder, framebuf, global_decoder_mutex,
                    global_chunk_id, num_frames_completed,
                    worker_threads_finished, files, output, wlocals,
                    spawn_i, join_i, history >>

\* A monitor that takes the frame count with exchange(0) instead of load().
m_wake_resetting ==
    /\ main_pc = "waiting"
    /\ cv_notified' = FALSE
    /\ num_frames_completed' = 0
    /\ late_wakes' = IF AllFinished(worker_threads_finished)
                     THEN late_wakes + 1 ELSE late_wakes
    /\ main_pc' = "check"
    /\ UNCHANGED << segvars, openvars, inputs, decoder, framebuf, global_decoder_mutex,
                    global_chunk_id, worker_threads_finished, files, output,
                    wlocals, spawn_i, join_i, history >>

\* cv.wait_for(lk, 1s) returns, by signal or by timeout; the counter is read
\* for the progress line, which is output only and keeps no state here
m_wake ==
    /\ main_pc = "waiting"
    /\ cv_notified' = FALSE
    /\ late_wakes' = IF AllFinished(worker_threads_finished)
                     THEN late_wakes + 1 ELSE late_wakes
    /\ main_pc' = "check"
    /\ UNCHANGED << segvars, openvars, inputs, decoder, framebuf, global_decoder_mutex,
                    global_chunk_id, num_frames_completed,
                    worker_threads_finished, files, output, wlocals,
                    spawn_i, join_i, history >>

\* the flag loop and "if (are_threads_finished) break;"
m_check ==
    /\ main_pc = "check"
    /\ main_pc' = IF AllFinished(worker_threads_finished) THEN "join"
                                                          ELSE "loop"
    /\ UNCHANGED << segvars, openvars, inputs, shared, wlocals, spawn_i, join_i, mhist, history >>

\* A join that does not wait for the thread.
JoinableAlways(p) == TRUE

\* t.join() returns once the thread function has returned
Joinable(p) == p = "done"

m_join ==
    /\ main_pc = "join"
    /\ join_i < NUM_WORKERS
    /\ Joinable(pc[join_i])
    /\ join_i' = join_i + 1
    /\ UNCHANGED << segvars, openvars, inputs, shared, wlocals, main_pc, spawn_i, mhist, history >>

\* raw_concat_files(global_chunk_id)
m_concat ==
    /\ main_pc = "join"
    /\ join_i >= NUM_WORKERS
    /\ output' = raw_concat_files(files, global_chunk_id)
    /\ concat_runs' = concat_runs + 1
    /\ main_pc' = "done"
    /\ UNCHANGED << segvars, openvars, inputs, decoder, framebuf, global_decoder_mutex,
                    global_chunk_id, num_frames_completed,
                    worker_threads_finished, cv_notified, files, wlocals,
                    spawn_i, join_i, mhist, assigned,
                    written, decode_turns, dec_err_seen, stores >>

\* ------------------------------------------------------------------ Next
\* A worker thread: it takes steps until exit() has ended the process.
Worker(w) ==
    /\ main_pc # "exited"
    /\ \/ w_lock(w)
       \/ w_decode(w)
       \/ w_exit_store(w)
       \/ w_exit_notify(w)
       \/ w_exit_unlock(w)
       \/ w_read_id(w)
       \/ w_inc_id(w)
       \/ w_unlock(w)
       \/ w_enc_open(w)
       \/ w_enc_frame(w)
       \/ w_enc_close(w)
       \/ w_fail_store(w)
       \/ w_fail_notify(w)
       \/ w_segv(w)

Main == m_spawn \/ m_wait \/ m_wake \/ m_check \/ m_join \/ m_concat

Next == Main \/ \E w \in Workers : Worker(w)

Spec == Init /\ [][Next]_vars

\* Threads are scheduled by the operating system: the main thread keeps
\* running, and as long as some worker thread can take a step, some worker
\* thread takes one.  (Every fair scheduling of the single threads is of
\* this kind.)
\* The fair runs start from the sources of at most one full chunk and two
\* frames more, with every fault of Inputs; the longer sources, which run
\* without faults, are searched under Spec.
FairInit ==
    /\ Init
    /\ src_frames <= CHUNK_FRAME_SIZE + 2

FairSpec ==
    /\ FairInit
    /\ [][Next]_vars
    /\ WF_vars(Main)
    /\ WF_vars(\E w \in Workers : Worker(w))

\* ------------------------------------------ segment analysis and repair
\* A packet is a key frame ("K", decodable on its own) or a frame coded against
\* the packets before it ("P"); a segment file is a run of packets cut out of
\* the source.
Packets == {"K", "P"}
SegFiles == UNION {[1 .. n -> Packets] : n \in 1 .. MaxPkts}

\* Packets of a file read from its start that the decoder cannot decode: the
\* ones before the file's first key frame.
Undecodable(file) ==
    IF \E k \in 1 .. Len(file) : file[k] = "K"
    THEN (CHOOSE k \in 1 .. Len(file) :
             file[k] = "K" /\ \A j \in 1 .. (k - 1) : file[j] = "P") - 1
    ELSE Len(file)

\* Decode a file to exhaustion: decodable frames, and discarded packets as
\* total packets minus decodable frames.
Descriptor(file) ==
    [decodable |-> Len(file) - Undecodable(file),
     discarded |-> Len(file) - (Len(file) - Undecodable(file))]

\* The two-segment splice: one file holding the packets of both, in order.
Splice(a, b) == a \o b

\* main_unused after segment_video: the source starts with a key frame, so
\* the first segment does.  main_encode_loop and DecodeContext::open have not
\* been called.
SegInit ==
    /\ open_result = "unopened"
    /\ errors_reported = 0
    /\ src_frames = 0
    /\ enc_lag = 0
    /\ NoFaults
    /\ PipeStart
    /\ main_pc = "idle"
    /\ segments \in {q \in UNION {[1 .. n -> SegFiles] : n \in 1 .. MaxSegs} :
                       q[1][1] = "K"}
    /\ seg_pc = "analyze"
    /\ seg_i = 0
    /\ descriptors = << >>
    /\ broken = << >>
    /\ rep_i = 0
    /\ splices = << >>

\* analyze, one segment: decode it, record its descriptor, list it if broken
seg_analyze ==
    /\ seg_pc = "analyze"
    /\ seg_i < Len(segments)
    /\ descriptors' = Append(descriptors, Descriptor(segments[seg_i + 1]))
    /\ broken' = IF Descriptor(segments[seg_i + 1]).discarded > 0
                 THEN Append(broken, seg_i)
                 ELSE broken
    /\ seg_i' = seg_i + 1
    /\ UNCHANGED << inputs, shared, wlocals, mlocals, history, openvars, segments,
                    seg_pc, rep_i, splices >>

\* all segments analyzed: the broken list goes to the repairer
seg_analyzed ==
    /\ seg_pc = "analyze"
    /\ seg_i >= Len(segments)
    /\ seg_pc' = "repair"
    /\ UNCHANGED << inputs, shared, wlocals, mlocals, history, openvars, segments,
                    seg_i, descriptors, broken, rep_i, splices >>

\* repair, one broken index i: splice segment i - 1 and segment i
seg_repair ==
    /\ seg_pc = "repair"
    /\ rep_i < Len(broken)
    /\ LET i == broken[rep_i + 1]
           joined == Splice(segments[i], segments[i + 1])
       IN splices' = Append(splices,
                        [index |-> i,
                         superseded |-> {i - 1, i},
                         decodable |-> Descriptor(joined).decodable,
                         discarded |-> Descriptor(joined).discarded])
    /\ rep_i' = rep_i + 1
    /\ UNCHANGED << inputs, shared, wlocals, mlocals, history, openvars, segments,
                    seg_pc, seg_i, descriptors, broken >>

\* fix_broken_segments returns and main_unused returns 0
seg_finish ==
    /\ seg_pc = "repair"
    /\ rep_i >= Len(broken)
    /\ seg_pc' = "done"
    /\ UNCHANGED << inputs, shared, wlocals, mlocals, history, openvars, segments,
                    seg_i, descriptors, broken, rep_i, splices >>

\* ------------------------------ the end of main_unused, lines 669-707
\* DecodeContext::open(url) and the visit of its result, taken from the
\* statement at line 669 on (main_unused returns at line 635, ahead of them):
\* open has returned open_result, and with a DecodeContext main_encode_loop
\* runs on it.
OpenInit ==
    /\ open_result \in OpenResults
    /\ errors_reported = 0
    /\ IF open_result = "ok"
       THEN Inputs /\ src_frames <= CHUNK_FRAME_SIZE + 2
       ELSE src_frames = 0 /\ enc_lag = 0 /\ NoFaults
    /\ PipeStart
    /\ main_pc = "open"
    /\ SegIdle

OpenNext == m_open \/ Next

OpenSpec == OpenInit /\ [][OpenNext]_vars

SegNext == seg_analyze \/ seg_analyzed \/ seg_repair \/ seg_finish

SegSpec == SegInit /\ [][SegNext]_vars

\* =================================================================
\* Properties
\* =================================================================
AllDone == \A w \in Workers : pc[w] = "done"

NoFault ==
    /\ dec_err_at = None
    /\ open_fail_chunk = None
    /\ enc_fail_frame = None
    /\ flush_fail_chunk = None
    /\ alloc_fail_chunk = None
    /\ fopen_fail_chunk = None
    /\ recv_fail_frame = None
    /\ recv_fail_chunk = None

\* Frames first .. first + n - 1 as a sequence.
Run(first, n) == [i \in 1 .. n |-> first + i - 1]

CeilDiv(a, b) == (a + b - 1) \div b

Increasing(q) == \A i, j \in 1 .. Len(q) : i < j => q[i] < q[j]

\* C1: the chunk ids handed out, in the order they were handed out, are
\* 0, 1, 2, ...: none twice, none skipped; once every worker has returned
\* their number is the final value K of the chunk-id counter.
C1_ChunkIdsContiguous ==
    /\ \A i \in 1 .. Len(assigned) : assigned[i].id = i - 1
    /\ AllDone => Len(assigned) = global_chunk_id

C1_Witness ==
    /\ AllDone
    /\ global_chunk_id >= 2
    /\ \E i, j \in 1 .. Len(assigned) : assigned[i].w # assigned[j].w

\* C2: a chunk has a smaller id than another exactly when its frames come
\* earlier in the source, and chunks do not overlap; the concatenation of
\* the chunk files in id order therefore holds the frames in source order.
C2_IdOrderIsFrameOrder ==
    /\ \A a, b \in 1 .. Len(assigned) :
          /\ (assigned[a].id < assigned[b].id)
                <=> (assigned[a].first < assigned[b].first)
          /\ (assigned[a].id < assigned[b].id)
                => (assigned[a].first + assigned[a].n <= assigned[b].first)
    /\ main_pc = "done" => Increasing(output)

C2_Witness ==
    /\ main_pc = "done"
    /\ Len(output) >= 3
    /\ Len(assigned) >= 2
    /\ assigned[1].w = 1
    /\ assigned[2].w = 0

\* C3: at most one worker is inside a decode turn, the worker inside it
\* owns the mutex, and the decoder and the chunk-id counter are used
\* (run_decoder, read and increment of global_chunk_id) only by the owner.
InTurn(w) == pc[w] \in {"decode", "exit_store", "exit_notify", "exit_unlock",
                        "read_id", "inc_id", "unlock"}

C3_DecodeTurnExclusive ==
    /\ Cardinality({w \in Workers : InTurn(w)}) <= 1
    /\ \A w \in Workers : InTurn(w) => global_decoder_mutex = w
    /\ \A w \in Workers :
          pc[w] \in {"decode", "read_id", "inc_id"}
             => /\ global_decoder_mutex = w
                /\ \A v \in Workers \ {w} :
                      pc[v] \notin {"decode", "read_id", "inc_id"}

C3_Witness ==
    /\ pc[0] = "inc_id"
    /\ pc[1] = "lock"
    /\ global_chunk_id >= 1

\* C4: a run without failures over F frames with chunk size C ends with
\* ceil(F / C) chunks, chunk k holding exactly the source frames
\* k*C .. min((k+1)*C, F) - 1, and an output of all F frames in order.
C4_ChunksCoverSource ==
    (main_pc = "done" /\ NoFault) =>
        /\ global_chunk_id = CeilDiv(src_frames, CHUNK_FRAME_SIZE)
        /\ \A k \in 0 .. (global_chunk_id - 1) :
              files[k] = Run(k * CHUNK_FRAME_SIZE,
                             Min((k + 1) * CHUNK_FRAME_SIZE, src_frames)
                                - k * CHUNK_FRAME_SIZE)
        /\ \A k \in FileIds : k >= global_chunk_id => files[k] = NoFile
        /\ output = Run(0, src_frames)

\* The scenario of the claim at the scale of the model: twice as many full
\* chunks as workers (200 = 2 * 4 * 25 there), every worker has taken more
\* than one chunk, and some worker has taken a further chunk after another
\* worker took one in between.
C4_Witness ==
    /\ main_pc = "done"
    /\ NoFault
    /\ src_frames = 2 * NUM_WORKERS * CHUNK_FRAME_SIZE
    /\ enc_lag = MaxLag
    /\ global_chunk_id = 2 * NUM_WORKERS
    /\ \A k \in 0 .. (global_chunk_id - 1) :
          Len(files[k]) = CHUNK_FRAME_SIZE
    /\ Len(output) = src_frames
    /\ \A w \in Workers :
          \E i, j \in 1 .. Len(assigned) :
             i < j /\ assigned[i].w = w /\ assigned[j].w = w
    /\ \E i, j, k \in 1 .. Len(assigned) :
          /\ i < j /\ j < k
          /\ assigned[i].w = assigned[k].w
          /\ assigned[i].w # assigned[j].w

\* C5: when the run has ended, the completed-frame counter equals the
\* number of frames the workers wrote through their encoders.
C5_CounterIsFramesWritten ==
    main_pc = "done" =>
        num_frames_completed = SumTo(written, NUM_WORKERS - 1)

\* C6: a worker-finished flag starts unset, is stored to once, by its own
\* worker as that worker leaves its loop, and is never cleared; the
\* monitor loop is left only with all flags set, and once all flags are
\* set the monitor loop is left.
MonitorExited == main_pc \in {"join", "done"}

FlagState ==
    \A w \in Workers :
       /\ stores[w] <= 1
       /\ worker_threads_finished[w] <=> stores[w] = 1
       /\ worker_threads_finished[w]
             => pc[w] \in {"exit_notify", "exit_unlock", "fail_notify", "done"}
       /\ pc[w] = "done" => worker_threads_finished[w]

FlagStep ==
    \A w \in Workers :
       /\ worker_threads_finished[w] => worker_threads_finished'[w]
       /\ (~worker_threads_finished[w] /\ worker_threads_finished'[w])
             => /\ pc[w] \in {"exit_store", "fail_store"}
                /\ pc'[w] \in {"exit_notify", "fail_notify"}
                /\ \A v \in Workers \ {w} : pc'[v] = pc[v]

C6_FinishedFlags ==
    /\ \A w \in Workers : ~worker_threads_finished[w]
    /\ [](FlagState /\ (MonitorExited => AllFinished(worker_threads_finished)))
    /\ [][FlagStep]_vars
    /\ (AllFinished(worker_threads_finished) ~> MonitorExited)

C6_Witness ==
    /\ MonitorExited
    /\ \E w \in Workers : ret[w] = AVERROR /\ chunk_idx[w] = open_fail_chunk
    /\ \E w \in Workers : pc[w] = "done" /\ ret[w] = 0 /\ frames[w] = 0

\* C7 as stated: when the monitor has seen all flags set and left its
\* loop, every worker has returned and nobody owns the decode mutex.
C7_Original ==
    MonitorExited => (AllDone /\ global_decoder_mutex = NoOwner)

\* C7 amended: when the monitor has seen all flags set and left its loop,
\* every worker is past its store to its flag, and the decoder, the chunk-id
\* counter, the frame counter and the flags do not change any more; a worker
\* may still have to notify and to unlock, and has done so when the joins
\* are over.
PastStore(w) == pc[w] \in {"exit_notify", "exit_unlock", "fail_notify", "done"}

C7_QuietAfterMonitorExit ==
    /\ [](MonitorExited => \A w \in Workers : PastStore(w))
    /\ []((main_pc = "join" /\ join_i >= NUM_WORKERS)
            => (AllDone /\ global_decoder_mutex = NoOwner))
    /\ [][MonitorExited =>
            UNCHANGED << decoder, global_chunk_id, num_frames_completed,
                         worker_threads_finished, files >>]_vars

C7_Witness ==
    /\ main_pc = "join"
    /\ \E w \in Workers : pc[w] = "exit_notify" /\ global_decoder_mutex = w
    /\ global_chunk_id >= 1

\* C8: raw_concat_files runs once, at the end, and only when every worker
\* has returned and has been joined: then nobody owns the decode mutex, so
\* no worker can change the chunk-id counter or be writing a chunk file.
C8_ConcatAfterJoin ==
    /\ concat_runs = (IF main_pc = "done" THEN 1 ELSE 0)
    /\ ((main_pc = "join" /\ join_i >= NUM_WORKERS) \/ main_pc = "done")
          => /\ AllDone
             /\ global_decoder_mutex = NoOwner
             /\ Len(assigned) = global_chunk_id

C8_Witness ==
    /\ main_pc = "done"
    /\ concat_runs = 1
    /\ global_chunk_id >= 2
    /\ Len(output) >= 3

\* C9: with every thread scheduled again and again and a finite source,
\* the run ends: every worker returns, the monitor loop is left, the
\* joins return and the concatenation is made.
C9_RunTerminates ==
    <>(main_pc = "done" /\ AllDone)

\* C10: once a decode turn has returned a negative result, the chunk-id
\* counter does not move and no chunk id is handed out.
C10_NoIdAfterDecodeError ==
    [][dec_err_seen =>
          (global_chunk_id' = global_chunk_id /\ assigned' = assigned)]_vars

\* ---------------------------------------------------------------------
\* The frame whose encode() call fails was among the frames worker w has
\* passed to encode() for the chunk sitting in its slots.
EncodeCallFailed(w) ==
    /\ enc_fail_frame # None
    /\ \E i \in 0 .. (enc_i[w] - 1) :
          framebuf[SlotBase(w) + i] = enc_fail_frame

\* The flush call of the chunk worker w was given has been made and failed.
FlushCallFailed(w) ==
    /\ chunk_idx[w] # None
    /\ chunk_idx[w] = flush_fail_chunk
    /\ pc[w] \notin {"inc_id", "unlock", "enc_open", "enc_frame"}

\* C11: a worker whose chunk failed to encode (encoder setup, the encode
\* call of one of its frames, or the flush) stores its flag, notifies and
\* returns the failure: the failure does not end the process, the worker is
\* never again waiting for a decode turn, and once it has returned its
\* result is the failure and its flag is set.
C11_EncodeFailureExits ==
    /\ main_pc # "exited"
    /\ \A w \in Workers :
          /\ pc[w] # "segv"
          /\ (pc[w] = "lock" => ~(EncodeCallFailed(w) \/ FlushCallFailed(w)))
          /\ (pc[w] = "done" /\ chunk_idx[w] # None
                 /\ (chunk_idx[w] = open_fail_chunk \/ EncodeCallFailed(w)
                        \/ FlushCallFailed(w)))
                => (ret[w] < 0 /\ worker_threads_finished[w])

\* C12: a run in which some worker returned an error does not end with the
\* chunk files concatenated as after a successful run.
C12_FailuresSurfaced ==
    (main_pc = "done" /\ \E w \in Workers : ret[w] < 0) => concat_runs = 0

\* C13: when opening the source fails the pipeline never starts: no worker
\* leaves its initial state, no decode turn is taken, no chunk id is handed
\* out, no chunk file and no output exist, and the error is reported exactly
\* once, after which the program has ended.
C13_OpenFailureStopsRun ==
    open_result \in OpenErrors =>
        /\ main_pc \in {"open", "exit"}
        /\ \A w \in Workers : pc[w] = "idle" /\ ~worker_threads_finished[w]
        /\ spawn_i = 0
        /\ decode_turns = 0
        /\ global_chunk_id = 0
        /\ assigned = << >>
        /\ \A k \in FileIds : files[k] = NoFile
        /\ output = NoFile
        /\ concat_runs = 0
        /\ errors_reported = (IF main_pc = "exit" THEN 1 ELSE 0)

C13_Witness ==
    /\ open_result = "NoVideoStream"
    /\ main_pc = "exit"
    /\ errors_reported = 1

\* C16: the mutex is owned only by a worker inside its decode turn (from
\* run_decoder to the unlock after the id was taken, or to the unlock of the
\* exit path); a worker that is encoding does not own it.
Encoding(w) == pc[w] \in {"enc_open", "enc_frame", "fail_store", "fail_notify"}

\* C16: the owner of the mutex is inside its decode turn; no encoding worker
\* and no worker outside a turn owns it.
C16_LockOnlyInDecodeTurn ==
    \A w \in Workers :
        /\ global_decoder_mutex = w => InTurn(w)
        /\ Encoding(w) => global_decoder_mutex # w
        /\ pc[w] \in {"idle", "lock", "done"} => global_decoder_mutex # w

C16_Witness ==
    /\ pc[0] = "enc_frame"
    /\ enc_i[0] < frames[0]
    /\ pc[1] = "decode"
    /\ global_decoder_mutex = 1

\* C17: a frame slot s changes only in the run_decoder step of the worker
\* owning it (worker s / CHUNK_FRAME_SIZE), never while another worker is
\* about to read it; a worker reads only slots of its own range; and a worker
\* waiting for or holding a decode turn has encoded all frames of its
\* previous chunk.
SlotOwner(s) == s \div CHUNK_FRAME_SIZE

C17_SlotWrite ==
    \A s \in Slots :
        framebuf'[s] # framebuf[s] =>
            /\ pc[SlotOwner(s)] = "decode"
            /\ pc'[SlotOwner(s)] \in {"read_id", "exit_store"}
            /\ \A v \in Workers \ {SlotOwner(s)} :
                  ~(pc[v] = "enc_frame" /\ enc_i[v] < frames[v]
                      /\ SlotBase(v) + enc_i[v] = s)

C17_SlotRead ==
    \A w \in Workers :
        /\ (pc[w] = "enc_frame" /\ enc_i[w] < frames[w])
              => SlotOwner(SlotBase(w) + enc_i[w]) = w
        /\ pc[w] \in {"lock", "decode"} => enc_i[w] >= frames[w]

\* C17: slots are written only by their owner's run_decoder step and read
\* only by their owner, after the previous chunk was encoded.
C17_SlotRangesDisjoint == [][C17_SlotWrite]_vars /\ []C17_SlotRead

C17_Witness ==
    /\ pc[1] = "decode"
    /\ chunk_idx[1] # None
    /\ enc_i[1] = CHUNK_FRAME_SIZE
    /\ pc[0] = "enc_frame"
    /\ enc_i[0] < frames[0]

\* C18: every change of the completed-frame counter is an increment by one
\* made in a step in which a frame was written to a chunk file.
C18_CountOnlyWritten ==
    [][num_frames_completed' # num_frames_completed =>
          /\ num_frames_completed' = num_frames_completed + 1
          /\ \E w \in Workers : written'[w] = written[w] + 1]_vars

\* C19: a waiting monitor can always return from wait_for, whether or not a
\* signal reached it; wait_for returns at most once with all flags set, and
\* once all flags are set the monitor leaves its loop.
C19_TimedWakeExits ==
    /\ [](late_wakes <= 1)
    /\ [](main_pc = "waiting" => ENABLED m_wake)
    /\ AllFinished(worker_threads_finished) ~> MonitorExited

\* The monitor has left its loop after a wait that ended with all flags set
\* while the last worker has not sent its signal yet.
C19_Witness ==
    /\ MonitorExited
    /\ late_wakes = 1
    /\ ~cv_notified
    /\ \E w \in Workers : pc[w] \in {"exit_notify", "fail_notify"}

\* C20: a step of the monitor loop changes neither the decoder, the frame
\* slots, the mutex, the chunk-id counter, the completed-frame counter nor
\* a finished flag; the completed-frame counter never decreases.
InMonitor == main_pc \in {"loop", "waiting", "check"}

C20_MonitorStep ==
    (InMonitor /\ mlocals' # mlocals) =>
        UNCHANGED << decoder, framebuf, global_decoder_mutex,
                     global_chunk_id, num_frames_completed,
                     worker_threads_finished >>

\* C20: the monitor loop writes no worker-visible state and the
\* completed-frame counter is monotonic.
C20_MonitorReadOnly ==
    /\ [][C20_MonitorStep]_vars
    /\ [][num_frames_completed' >= num_frames_completed]_vars

C20_Witness ==
    /\ main_pc = "check"
    /\ num_frames_completed > 0
    /\ global_decoder_mutex # NoOwner
    /\ \E w \in Workers : worker_threads_finished[w]

\* C14: every splice made for a broken segment i (segment i - 1 joined with
\* segment i) is a file that decodes with no discarded packet, whatever the
\* state of the neighbours of i.
C14_SpliceDiscardsNothing ==
    \A k \in 1 .. Len(splices) : splices[k].discarded = 0

\* C21: a worker that has returned does not own the mutex; the owner of the
\* mutex is a started worker inside its decode turn, so it can take a step;
\* hence in no state are all started, not yet returned workers waiting for a
\* mutex that is locked.
Live(w) == pc[w] \notin {"idle", "done"}

BlockedOnLock(w) == pc[w] = "lock" /\ global_decoder_mutex # NoOwner

C21_ExitedWorkerHoldsNoLock ==
    /\ \A w \in Workers : pc[w] = "done" => global_decoder_mutex # w
    /\ global_decoder_mutex # NoOwner
          => (Live(global_decoder_mutex) /\ InTurn(global_decoder_mutex))
    /\ (\E w \in Workers : Live(w))
          => \E w \in Workers : Live(w) /\ ~BlockedOnLock(w)

\* A worker has returned on a decode result <= 0 and the other one has
\* taken the mutex after it and decoded frames.
C21_Witness ==
    /\ pc[0] = "done"
    /\ frames[0] <= 0
    /\ pc[1] = "read_id"
    /\ global_decoder_mutex = 1

\* C22: when all joins have returned and raw_concat_files is about to be
\* called with the final chunk-id counter K, every id below K was handed
\* out, and its chunk file exists and holds exactly the frames decoded for
\* that id.
ConcatStarts == main_pc = "join" /\ join_i >= NUM_WORKERS

C22_EveryIdHasItsFile ==
    ConcatStarts =>
        \A k \in 0 .. (global_chunk_id - 1) :
            /\ \E a \in 1 .. Len(assigned) : assigned[a].id = k
            /\ files[k] # NoFile
            /\ \A a \in 1 .. Len(assigned) :
                  assigned[a].id = k
                     => files[k] = Run(assigned[a].first, assigned[a].n)

\* Worker w has left, or is leaving, its loop on its own decode result <= 0.
Exhausted(w) ==
    \/ pc[w] \in {"exit_store", "exit_notify", "exit_unlock"}
    \/ pc[w] = "done" /\ frames[w] <= 0

\* C23: a worker is on the decode exit only with a result <= 0 of its own
\* turn and on the failure exit only with a failed encode of its own chunk;
\* every decode turn either produced a chunk or was the last turn of the
\* worker that took it, so each worker that leaves on the decode exit has
\* taken one turn more than it got chunks; a run without faults ends with
\* K + NUM_WORKERS decode turns.
C23_ExhaustionNotBroadcast ==
    /\ \A w \in Workers :
          /\ pc[w] \in {"exit_store", "exit_notify", "exit_unlock"}
                => frames[w] <= 0
          /\ pc[w] \in {"fail_store", "fail_notify"}
                => (frames[w] > 0 /\ ret[w] < 0)
          /\ pc[w] = "done" => (frames[w] <= 0 \/ ret[w] < 0)
    /\ decode_turns = Len(assigned)
                         + Cardinality({w \in Workers : pc[w] = "read_id"})
                         + Cardinality({w \in Workers : Exhausted(w)})
    /\ (main_pc = "done" /\ NoFault)
          => decode_turns = global_chunk_id + NUM_WORKERS

\* One worker has returned on end of stream; the other one, which encoded a
\* chunk meanwhile, is in a further decode turn of its own on the exhausted
\* decoder.
C23_Witness ==
    /\ NoFault
    /\ pc[0] = "done"
    /\ frames[0] = 0
    /\ pc[1] = "decode"
    /\ chunk_idx[1] # None
    /\ decoder.eof

====
